---- MODULE Spec2Model ----
(***************************************************************************)
(* A model of pyLottoScraper's frequency analysis and entry generation     *)
(* (lottery_analyzer.py) over the draw store written by lottery_scraper.py.*)
(*                                                                         *)
(* The draw store is the sqlite file: the set of result tables that exist  *)
(* and, per table, the `numbers` column of its rows in rowid order.  A     *)
(* `numbers` text is modelled as the sequence of its comma-separated       *)
(* fields; a field is an integer, a field >= 0 standing for its decimal    *)
(* text (str.isdigit() is true) and a field < 0 for any text on which      *)
(* str.isdigit() is false ("-1", "", "abc").  The empty sequence is the    *)
(* empty text.                                                             *)
(*                                                                         *)
(* A Python dict is modelled as the sequence of its (key, value) items in  *)
(* insertion order, which is the order dict.items() iterates in.           *)
(*                                                                         *)
(* random.choice and random.sample are library calls: their results are    *)
(* nondeterministic inputs, drawn here from a small family of results the  *)
(* library can return (RandomChoice, RandomSample).                        *)
(***************************************************************************)
EXTENDS Integers, Sequences, FiniteSets, TLC

VARIABLES
    tables,       \* the result tables that exist in the sqlite file
    rows,         \* lottery type -> the `numbers` texts of its table's rows
    op,           \* the call the caller is in: "idle" or the operation that returned
    argType,      \* lottery_type of that call
    argStrategy,  \* strategy of that call (generate_frequency_based_entry)
    argCount,     \* count / num_entries of that call
    raised,       \* the call ended in sqlite3.OperationalError
    frequency,    \* return value of calculate_frequency
    ranked,       \* return value of get_most/least_frequent_numbers
    numbers,      \* return value of generate_frequency_based_entry
    entries,      \* return value of generate_optimal_entries
    frame         \* generate_frequency_based_entry run line by line: its locals

vars == <<tables, rows, op, argType, argStrategy, argCount, raised,
          frequency, ranked, numbers, entries, frame>>

--------------------------------------------------------------------------
(* Bounds and input sets *)

MaxRows == 2      \* rows stored in the draw store, over all tables
MaxBatch == 6     \* largest num_entries asked of generate_optimal_entries
MaxCount == 3     \* largest count asked of the ranking functions

\* "daily" is a lottery identifier the program does not know.
LotteryTypes == {"lotto649", "lottomax", "daily"}

\* "lucky" is a strategy name the program does not know.
StrategyNames == {"hot", "cold", "balanced", "random", "lucky"}

\* result['numbers'] lists the fetch layer can hand to the store functions:
\* a well-formed 6/49 draw, a well-formed LottoMax draw, a malformed draw
\* (a repeated number, an out-of-range number, a field that is no number),
\* and an empty list.
SampleDraws ==
    { <<3, 7, 13, 20, 31, 42>>,
      <<7, 14, 21, 28, 33, 39, 50>>,
      <<7, 7, 99, -1>>,
      <<>> }

Counts == (-1)..MaxCount

BatchSizes == (-1)..MaxBatch

--------------------------------------------------------------------------
(* Python built-ins *)

Min(a, b) == IF a <= b THEN a ELSE b

Max(a, b) == IF a >= b THEN a ELSE b

\* s[:k]
SliceTo(s, k) ==
    IF k >= 0 THEN SubSeq(s, 1, Min(k, Len(s)))
    ELSE SubSeq(s, 1, Max(Len(s) + k, 0))

\* list(range(lo, hi + 1))
RangeList(lo, hi) == [i \in 1..Max(hi - lo + 1, 0) |-> lo + i - 1]

InList(x, s) == \E i \in 1..Len(s) : s[i] = x

\* [n for n in pool if n not in selected]
NotIn(pool, selected) == SelectSeq(pool, LAMBDA n : ~InList(n, selected))

\* sorted(xs) on a list of integers: insertion keeps equal values together
RECURSIVE SortedInts(_)
SortedInts(xs) ==
    IF xs = <<>> THEN <<>>
    ELSE LET rest == SortedInts(SubSeq(xs, 1, Len(xs) - 1))
             x == xs[Len(xs)]
             k == Cardinality({i \in 1..Len(rest) : rest[i] <= x})
         IN SubSeq(rest, 1, k) \o <<x>> \o SubSeq(rest, k + 1, Len(rest))

\* sorted(items, key=lambda x: x[1]): stable, ascending by count
RECURSIVE SortedByCount(_)
SortedByCount(items) ==
    IF items = <<>> THEN <<>>
    ELSE LET rest == SortedByCount(SubSeq(items, 1, Len(items) - 1))
             x == items[Len(items)]
             k == Cardinality({i \in 1..Len(rest) : rest[i][2] <= x[2]})
         IN SubSeq(rest, 1, k) \o <<x>> \o SubSeq(rest, k + 1, Len(rest))

\* a descending sort made of the ascending sort read backwards
Mutant_ReverseOfAscending(items) ==
    LET up == SortedByCount(items)
    IN [i \in 1..Len(up) |-> up[Len(up) + 1 - i]]

\* sorted(items, key=lambda x: x[1], reverse=True): descending by count;
\* Python's reverse sort keeps items of equal key in their original order
RECURSIVE SortedByCountReverse(_)
SortedByCountReverse(items) ==
    IF items = <<>> THEN <<>>
    ELSE LET rest == SortedByCountReverse(SubSeq(items, 1, Len(items) - 1))
             x == items[Len(items)]
             k == Cardinality({i \in 1..Len(rest) : rest[i][2] >= x[2]})
         IN SubSeq(rest, 1, k) \o <<x>> \o SubSeq(rest, k + 1, Len(rest))

\* random.choice(pool): the first or the last element of the pool
RandomChoice(pool) == {pool[i] : i \in {1, Len(pool)} \cap (1..Len(pool))}

\* random.sample(population, k): k distinct elements in no particular order;
\* the k elements going down cyclically from the first or the last one
RandomSample(population, k) ==
    LET n == Len(population)
    IN IF k > n THEN {}
       ELSE { [i \in 1..k |-> population[((start - i + n) % n) + 1]] :
                start \in {1, n} }

--------------------------------------------------------------------------
(* The draw store *)

Store == [tables |-> tables, rows |-> rows]

TotalRows == Len(rows["lotto649"]) + Len(rows["lottomax"]) + Len(rows["daily"])

\* ','.join(map(str, result['numbers'])): one field per element; an int n
\* is written as its decimal text, which is all digits exactly when n >= 0
JoinNumbers(nums) == [i \in 1..Len(nums) |-> nums[i]]

\* the table {lottery_type}_results exists
TableExists(store, lottery_type) == lottery_type \in store.tables

IsDigit(field) == field >= 0

\* LotteryAnalyzer.get_all_drawn_numbers, its table existing
RECURSIVE ParseRows(_)
ParseRows(texts) ==
    IF texts = <<>> THEN <<>>
    ELSE LET numbers_str == Head(texts)
         IN (IF numbers_str # <<>>
             THEN << SelectSeq(numbers_str, IsDigit) >>
             ELSE <<>>) \o ParseRows(Tail(texts))

get_all_drawn_numbers(store, lottery_type) == ParseRows(store.rows[lottery_type])

--------------------------------------------------------------------------
(* LotteryAnalyzer *)

\* Counter.update counting a number once per draw, however often it is in it
RECURSIVE Mutant_CountOncePerDraw(_, _)
Mutant_CountOncePerDraw(counter, draw) ==
    IF draw = <<>> THEN counter
    ELSE LET n == Head(draw)
             at == {i \in 1..Len(counter) : counter[i][1] = n}
             rest == SelectSeq(Tail(draw), LAMBDA m : m # n)
             next == IF at = {}
                     THEN Append(counter, <<n, 1>>)
                     ELSE [i \in 1..Len(counter) |->
                             IF i \in at THEN <<n, counter[i][2] + 1>>
                             ELSE counter[i]]
         IN Mutant_CountOncePerDraw(next, rest)

\* Counter.update(draw): one more for each element, a new key going last
RECURSIVE CounterUpdate(_, _)
CounterUpdate(counter, draw) ==
    IF draw = <<>> THEN counter
    ELSE LET n == Head(draw)
             at == {i \in 1..Len(counter) : counter[i][1] = n}
             next == IF at = {}
                     THEN Append(counter, <<n, 1>>)
                     ELSE [i \in 1..Len(counter) |->
                             IF i \in at THEN <<n, counter[i][2] + 1>>
                             ELSE counter[i]]
         IN CounterUpdate(next, Tail(draw))

RECURSIVE CountDraws(_, _)
CountDraws(counter, all_draws) ==
    IF all_draws = <<>> THEN counter
    ELSE CountDraws(CounterUpdate(counter, Head(all_draws)), Tail(all_draws))

\* a table that starts with every number of 1..49 at count 0
Mutant_FrequencyOverRange(store, lottery_type) ==
    CountDraws([n \in 1..49 |-> <<n, 0>>], get_all_drawn_numbers(store, lottery_type))

calculate_frequency(store, lottery_type) ==
    CountDraws(<<>>, get_all_drawn_numbers(store, lottery_type))

\* get_most_frequent_numbers without reverse=True
Mutant_MostWithoutReverse(store, lottery_type, count) ==
    SliceTo(SortedByCount(calculate_frequency(store, lottery_type)), count)

get_most_frequent_numbers(store, lottery_type, count) ==
    SliceTo(SortedByCountReverse(calculate_frequency(store, lottery_type)), count)

get_least_frequent_numbers(store, lottery_type, count) ==
    SliceTo(SortedByCount(calculate_frequency(store, lottery_type)), count)

\* <<min_num, max_num>>
get_number_ranges(lottery_type) ==
    IF lottery_type = "lotto649" THEN <<1, 49>>
    ELSE IF lottery_type = "lottomax" THEN <<1, 50>>
    ELSE <<1, 49>>

numbers_needed(lottery_type) == IF lottery_type = "lotto649" THEN 6 ELSE 7

\* [num for num, freq in pairs]
Nums(pairs) == [i \in 1..Len(pairs) |-> pairs[i][1]]

\* the while loop drawing from all_numbers without removing what is selected
RECURSIVE Mutant_FillFromWholeRange(_, _, _)
Mutant_FillFromWholeRange(selected, needed, all_numbers) ==
    IF Len(selected) < needed
    THEN UNION { Mutant_FillFromWholeRange(Append(selected, c), needed, all_numbers) :
                   c \in RandomChoice(all_numbers) }
    ELSE {selected}

\* the while loop of the balanced branch: every list it can end with
RECURSIVE FillRandomly(_, _, _)
FillRandomly(selected, needed, all_numbers) ==
    IF Len(selected) < needed
    THEN UNION { FillRandomly(Append(selected, c), needed, all_numbers) :
                   c \in RandomChoice(NotIn(all_numbers, selected)) }
    ELSE {selected}

\* random.choice(pool) as the library defines it: any element of the pool
RandomChoiceAny(pool) == {pool[i] : i \in 1..Len(pool)}

\* candidates[:numbers_needed - 1] of the hot branch
hot_selected(most_frequent, lottery_type) ==
    SliceTo(Nums(most_frequent), numbers_needed(lottery_type) - 1)

\* the hot branch's pool with the chosen numbers left in it
Mutant_PoolIsWholeRange(selected, lottery_type) ==
    LET range == get_number_ranges(lottery_type)
    IN RangeList(range[1], range[2])

\* a pool with nothing left to pick
Mutant_PoolIsEmpty(selected, lottery_type) == <<>>

\* [n for n in range(min_num, max_num + 1) if n not in selected]
remaining_pool(selected, lottery_type) ==
    LET range == get_number_ranges(lottery_type)
    IN NotIn(RangeList(range[1], range[2]), selected)

\* the hot branch, given what get_most_frequent_numbers returned
HotSelectionsOf(most_frequent, lottery_type) ==
    LET selected == hot_selected(most_frequent, lottery_type)
    IN { Append(selected, c) : c \in RandomChoice(remaining_pool(selected, lottery_type)) }

\* the hot branch with random.choice free to return any element of the pool
HotSelectionsAnyPick(most_frequent, lottery_type) ==
    LET selected == hot_selected(most_frequent, lottery_type)
    IN { Append(selected, c) : c \in RandomChoiceAny(remaining_pool(selected, lottery_type)) }

HotSelections(store, lottery_type) ==
    HotSelectionsOf(
        get_most_frequent_numbers(store, lottery_type, numbers_needed(lottery_type) * 2),
        lottery_type)

\* the cold branch, given what get_least_frequent_numbers returned
ColdSelectionsOf(least_frequent, lottery_type) ==
    LET candidates == Nums(least_frequent)
    IN { SliceTo(candidates, numbers_needed(lottery_type)) }

ColdSelections(store, lottery_type) ==
    ColdSelectionsOf(
        get_least_frequent_numbers(store, lottery_type, numbers_needed(lottery_type) * 2),
        lottery_type)

\* hot_picks + cold_picks of the balanced branch
balanced_selected(hot_numbers, cold_numbers, lottery_type) ==
    LET needed == numbers_needed(lottery_type)
        hot_picks == Nums(SliceTo(hot_numbers, needed \div 2))
        cold_picks == Nums(SliceTo(cold_numbers, needed \div 2))
    IN hot_picks \o cold_picks

\* the balanced branch, given what the two ranking calls returned
BalancedSelectionsOf(hot_numbers, cold_numbers, lottery_type) ==
    LET range == get_number_ranges(lottery_type)
    IN FillRandomly(balanced_selected(hot_numbers, cold_numbers, lottery_type),
                    numbers_needed(lottery_type), RangeList(range[1], range[2]))

BalancedSelections(store, lottery_type) ==
    BalancedSelectionsOf(
        get_most_frequent_numbers(store, lottery_type, numbers_needed(lottery_type)),
        get_least_frequent_numbers(store, lottery_type, numbers_needed(lottery_type)),
        lottery_type)

RandomSelections(lottery_type) ==
    LET range == get_number_ranges(lottery_type)
    IN RandomSample(RangeList(range[1], range[2]), numbers_needed(lottery_type))

\* generate_frequency_based_entry dispatching on the strategy before it looks
\* at the table (no fallback for an empty table)
Mutant_NoEmptyTableFallback(store, lottery_type, strategy) ==
    IF strategy = "hot"
    THEN { SortedInts(s) : s \in HotSelections(store, lottery_type) }
    ELSE IF strategy = "cold"
    THEN { SortedInts(s) : s \in ColdSelections(store, lottery_type) }
    ELSE IF strategy = "random"
    THEN { SortedInts(s) : s \in RandomSelections(lottery_type) }
    ELSE { SortedInts(s) : s \in BalancedSelections(store, lottery_type) }

\* generate_frequency_based_entry defaulting to random for an unknown strategy
Mutant_UnknownIsRandom(store, lottery_type, strategy) ==
    IF calculate_frequency(store, lottery_type) = <<>>
    THEN { SortedInts(s) : s \in RandomSelections(lottery_type) }
    ELSE IF strategy = "hot"
    THEN { SortedInts(s) : s \in HotSelections(store, lottery_type) }
    ELSE IF strategy = "cold"
    THEN { SortedInts(s) : s \in ColdSelections(store, lottery_type) }
    ELSE IF strategy = "balanced"
    THEN { SortedInts(s) : s \in BalancedSelections(store, lottery_type) }
    ELSE { SortedInts(s) : s \in RandomSelections(lottery_type) }

\* Every list generate_frequency_based_entry can return, the table existing.
RECURSIVE generate_frequency_based_entry(_, _, _)
generate_frequency_based_entry(store, lottery_type, strategy) ==
    IF calculate_frequency(store, lottery_type) = <<>>
    THEN { SortedInts(s) : s \in RandomSelections(lottery_type) }
    ELSE IF strategy = "hot"
    THEN { SortedInts(s) : s \in HotSelections(store, lottery_type) }
    ELSE IF strategy = "cold"
    THEN { SortedInts(s) : s \in ColdSelections(store, lottery_type) }
    ELSE IF strategy = "balanced"
    THEN { SortedInts(s) : s \in BalancedSelections(store, lottery_type) }
    ELSE IF strategy = "random"
    THEN { SortedInts(s) : s \in RandomSelections(lottery_type) }
    ELSE generate_frequency_based_entry(store, lottery_type, "balanced")

\* the rotation with cold and balanced swapped
Mutant_Rotation == <<"hot", "cold", "balanced", "random", "hot">>

strategies == <<"hot", "balanced", "cold", "random", "hot">>

\* Every list generate_optimal_entries can return from entry i on (i from 0),
\* the table existing.
RECURSIVE EntriesFrom(_, _, _, _)
EntriesFrom(store, lottery_type, i, num_entries) ==
    IF i >= num_entries THEN { <<>> }
    ELSE LET strategy == strategies[(i % Len(strategies)) + 1]
         IN { << [entry_number |-> i + 1, strategy |-> strategy, numbers |-> e] >> \o rest :
                e \in generate_frequency_based_entry(store, lottery_type, strategy),
                rest \in EntriesFrom(store, lottery_type, i + 1, num_entries) }

generate_optimal_entries(store, lottery_type, num_entries) ==
    EntriesFrom(store, lottery_type, 0, num_entries)

--------------------------------------------------------------------------
(* The state machine *)

NoResult ==
    /\ frequency' = <<>>
    /\ ranked' = <<>>
    /\ numbers' = <<>>
    /\ entries' = <<>>

\* no call of generate_frequency_based_entry is being run line by line
NoFrame ==
    [pc |-> "none", strategy |-> "", depth |-> 0, reads |-> <<>>,
     frequency |-> <<>>, most |-> <<>>, least |-> <<>>, selected |-> <<>>,
     fills |-> 0]

Init ==
    /\ tables \in { {}, {"daily"} }
    /\ rows = [t \in LotteryTypes |-> <<>>]
    /\ op = "idle"
    /\ argType = ""
    /\ argStrategy = ""
    /\ argCount = 0
    /\ raised = FALSE
    /\ frequency = <<>>
    /\ ranked = <<>>
    /\ numbers = <<>>
    /\ entries = <<>>
    /\ frame = NoFrame

\* LotteryScraper() / SampleDataLoader(): CREATE TABLE IF NOT EXISTS, twice
SetupDatabase ==
    /\ op = "idle"
    /\ tables' = tables \cup {"lotto649", "lottomax"}
    /\ UNCHANGED <<rows, op, argType, argStrategy, argCount, raised,
                   frequency, ranked, numbers, entries, frame>>

\* the rows of a table after the INSERTs of a store function; an INSERT into
\* a missing table raises, which the loop logs and passes over
RECURSIVE InsertAll(_, _, _)
InsertAll(table, exists, results) ==
    IF results = <<>> THEN table
    ELSE InsertAll(IF exists THEN Append(table, JoinNumbers(Head(results))) ELSE table,
                   exists, Tail(results))

StoreResults(lottery_type, results) ==
    /\ op = "idle"
    /\ TotalRows + Len(results) <= MaxRows
    /\ rows' = [rows EXCEPT ![lottery_type] =
                   InsertAll(@, lottery_type \in tables, results)]
    /\ UNCHANGED <<tables, op, argType, argStrategy, argCount, raised,
                   frequency, ranked, numbers, entries, frame>>

store_lotto649_results == \E d \in SampleDraws : StoreResults("lotto649", <<d>>)

store_lottomax_results == \E d \in SampleDraws : StoreResults("lottomax", <<d>>)

\* a call of the analyzer: the SELECT on a missing table raises
\* sqlite3.OperationalError, which no function of the analyzer catches
Call(name, lottery_type, strategy, count, reads) ==
    /\ op = "idle"
    /\ op' = name
    /\ argType' = lottery_type
    /\ argStrategy' = strategy
    /\ argCount' = count
    /\ raised' = (reads /\ ~TableExists(Store, lottery_type))
    /\ UNCHANGED <<tables, rows, frame>>

CalculateFrequency ==
    \E t \in LotteryTypes :
        /\ Call("calculate_frequency", t, "", 0, TRUE)
        /\ frequency' = IF TableExists(Store, t) THEN calculate_frequency(Store, t) ELSE <<>>
        /\ UNCHANGED <<ranked, numbers, entries>>

MostFrequent ==
    \E t \in LotteryTypes, k \in Counts :
        /\ Call("get_most_frequent_numbers", t, "", k, TRUE)
        /\ ranked' = IF TableExists(Store, t)
                     THEN get_most_frequent_numbers(Store, t, k) ELSE <<>>
        /\ UNCHANGED <<frequency, numbers, entries>>

LeastFrequent ==
    \E t \in LotteryTypes, k \in Counts :
        /\ Call("get_least_frequent_numbers", t, "", k, TRUE)
        /\ ranked' = IF TableExists(Store, t)
                     THEN get_least_frequent_numbers(Store, t, k) ELSE <<>>
        /\ UNCHANGED <<frequency, numbers, entries>>

GenerateEntry ==
    \E t \in LotteryTypes, s \in StrategyNames :
        /\ Call("generate_frequency_based_entry", t, s, 0, TRUE)
        /\ IF TableExists(Store, t)
           THEN numbers' \in generate_frequency_based_entry(Store, t, s)
           ELSE numbers' = <<>>
        /\ UNCHANGED <<frequency, ranked, entries>>

\* with num_entries <= 0 the loop body never runs and nothing is read
GenerateOptimalEntries ==
    \E t \in LotteryTypes, n \in BatchSizes :
        /\ Call("generate_optimal_entries", t, "", n, n > 0)
        /\ IF TableExists(Store, t)
           THEN entries' \in generate_optimal_entries(Store, t, n)
           ELSE entries' = <<>>
        /\ UNCHANGED <<frequency, ranked, numbers>>

\* the caller takes the result and is ready for its next call
Return ==
    /\ op # "idle"
    /\ op' = "idle"
    /\ argType' = ""
    /\ argStrategy' = ""
    /\ argCount' = 0
    /\ raised' = FALSE
    /\ NoResult
    /\ UNCHANGED <<tables, rows, frame>>

Next ==
    \/ SetupDatabase
    \/ store_lotto649_results
    \/ store_lottomax_results
    \/ CalculateFrequency
    \/ MostFrequent
    \/ LeastFrequent
    \/ GenerateEntry
    \/ GenerateOptimalEntries
    \/ Return

Spec == Init /\ [][Next]_vars

--------------------------------------------------------------------------
(* Claims *)

KnownStrategies == {"hot", "cold", "balanced", "random"}

KnownTypes == {"lotto649", "lottomax"}

\* generate_frequency_based_entry has returned a list
Generated == op = "generate_frequency_based_entry" /\ ~raised

\* the frequency table the returned call worked on
TableOfCall == calculate_frequency(Store, argType)

Keys(table) == {table[i][1] : i \in 1..Len(table)}

NoDuplicates(xs) == \A i, j \in 1..Len(xs) : i # j => xs[i] # xs[j]

Ascending(xs) == \A i, j \in 1..Len(xs) : i < j => xs[i] <= xs[j]

\* C1: for every strategy in {hot, cold, balanced, random} and every non-empty
\* frequency table, the returned entry has exactly numbers_needed values:
\* 6 for lotto649, 7 for lottomax.
C1_ExactlyNumbersNeeded ==
    (Generated /\ argStrategy \in KnownStrategies /\ argType \in KnownTypes
       /\ TableOfCall # <<>>)
    => Len(numbers) = (IF argType = "lotto649" THEN 6 ELSE 7)

\* C2: for every strategy and every non-empty frequency table, the returned
\* entry holds no value twice.
C2_NoDuplicateValue ==
    (Generated /\ argType \in KnownTypes /\ TableOfCall # <<>>)
    => NoDuplicates(numbers)

\* C3: for every strategy and every table built from the stored draw history,
\* every value of the returned entry lies within [min, max] of the lottery
\* profile (1..49 for lotto649, 1..50 for lottomax) and the entry is sorted
\* ascending.
C3_InRangeAndSorted ==
    (Generated /\ argType \in KnownTypes)
    => /\ \A i \in 1..Len(numbers) :
            numbers[i] \in 1..(IF argType = "lotto649" THEN 49 ELSE 50)
       /\ Ascending(numbers)

StrictlyAscending(xs) == \A i, j \in 1..Len(xs) : i < j => xs[i] < xs[j]

\* what random.sample(range(min, max + 1), numbers_needed), sorted, can give
SortedSamples(lottery_type) ==
    LET range == get_number_ranges(lottery_type)
    IN { SortedInts(x) :
           x \in RandomSample(RangeList(range[1], range[2]), numbers_needed(lottery_type)) }

\* C4: when the frequency table is empty, every strategy string (an
\* unrecognized one too) degrades to random: the possible results are the
\* sorted random samples of numbers_needed distinct values of [min, max], the
\* same set for every strategy, and the returned entry is one of them.
\* (The store changes only between calls, so every store is met with op = "idle".)
C4_EmptyTableDegradesToRandom ==
    /\ op = "idle"
       => \A t \in LotteryTypes :
             (TableExists(Store, t) /\ calculate_frequency(Store, t) = <<>>)
             => \A s \in StrategyNames :
                   generate_frequency_based_entry(Store, t, s) = SortedSamples(t)
    /\ (Generated /\ TableOfCall = <<>>)
       => /\ numbers \in SortedSamples(argType)
          /\ Len(numbers) = numbers_needed(argType)
          /\ StrictlyAscending(numbers)
          /\ \A i \in 1..Len(numbers) :
                /\ numbers[i] >= get_number_ranges(argType)[1]
                /\ numbers[i] <= get_number_ranges(argType)[2]

\* C4 witness: the cold strategy, asked on an empty lotto649 table, has
\* returned six numbers.
C4_Witness ==
    /\ Generated
    /\ argStrategy = "cold"
    /\ argType = "lotto649"
    /\ TableOfCall = <<>>
    /\ Len(numbers) = 6

\* C5: a strategy name outside {hot, cold, balanced, random} raises no error
\* of its own and behaves as balanced: for every table its possible results
\* are those of the balanced strategy.
C5_UnknownStrategyIsBalanced ==
    /\ op = "idle"
       => \A t \in LotteryTypes :
             TableExists(Store, t)
             => generate_frequency_based_entry(Store, t, "lucky")
                  = generate_frequency_based_entry(Store, t, "balanced")
    /\ (op = "generate_frequency_based_entry" /\ argStrategy \notin KnownStrategies)
       => /\ raised <=> ~TableExists(Store, argType)
          /\ ~raised => numbers \in generate_frequency_based_entry(Store, argType, "balanced")

\* C5 witness: an unknown strategy has returned an entry on a non-empty table.
C5_Witness ==
    /\ Generated
    /\ argStrategy = "lucky"
    /\ TableOfCall # <<>>
    /\ numbers # <<>>

\* how often n is in the draws of D, repeats within a draw included
RECURSIVE Occurrences(_, _)
Occurrences(n, D) ==
    IF D = <<>> THEN 0
    ELSE Cardinality({j \in 1..Len(Head(D)) : Head(D)[j] = n}) + Occurrences(n, Tail(D))

\* the sum of the values of a table
RECURSIVE SumOfCounts(_)
SumOfCounts(table) ==
    IF table = <<>> THEN 0 ELSE Head(table)[2] + SumOfCounts(Tail(table))

\* the number of number-occurrences in the draws of D
RECURSIVE TotalOccurrences(_)
TotalOccurrences(D) ==
    IF D = <<>> THEN 0 ELSE Len(Head(D)) + TotalOccurrences(Tail(D))

\* C6: calculate_frequency maps each number to the number of its occurrences
\* over all draws, a number twice in one draw counting twice; the values sum
\* to the total count of number-occurrences; no draws give an empty table.
C6_FrequencyCountsOccurrences ==
    (op = "calculate_frequency" /\ ~raised)
    => LET D == get_all_drawn_numbers(Store, argType)
       IN /\ NoDuplicates(Nums(frequency))
          /\ \A i \in 1..Len(frequency) :
                frequency[i][2] = Occurrences(frequency[i][1], D)
          /\ \A d \in 1..Len(D) : \A j \in 1..Len(D[d]) :
                D[d][j] \in Keys(frequency)
          /\ SumOfCounts(frequency) = TotalOccurrences(D)
          /\ D = <<>> => frequency = <<>>

\* C6 witness: a table computed from one draw that holds a number twice, and
\* that number counted twice.
C6_Witness ==
    /\ op = "calculate_frequency"
    /\ ~raised
    /\ Len(get_all_drawn_numbers(Store, argType)) = 1
    /\ \E i \in 1..Len(frequency) : frequency[i][2] = 2

\* C7: the keys of the frequency table of a known lottery are within
\* [min, max] of its profile (1..49 for lotto649, 1..50 for lottomax).
C7_KeysWithinRange ==
    (op = "calculate_frequency" /\ ~raised /\ argType \in KnownTypes)
    => Keys(frequency) \subseteq 1..(IF argType = "lotto649" THEN 49 ELSE 50)

Ranked == op \in {"get_most_frequent_numbers", "get_least_frequent_numbers"} /\ ~raised

\* C8: for k >= 0 the ranking functions return min(k, |table|) pairs of the
\* table, each item at most once, sorted by count descending (most frequent)
\* or ascending (least frequent), no item left out ranking before one taken;
\* an empty table gives an empty list.
C8_RankedLists ==
    (Ranked /\ argCount >= 0)
    => LET table == TableOfCall
           most == (op = "get_most_frequent_numbers")
       IN /\ Len(ranked) = Min(argCount, Len(table))
          /\ \A i \in 1..Len(ranked) : \E j \in 1..Len(table) : ranked[i] = table[j]
          /\ NoDuplicates(Nums(ranked))
          /\ \A i, j \in 1..Len(ranked) :
                i < j => IF most THEN ranked[i][2] >= ranked[j][2]
                         ELSE ranked[i][2] <= ranked[j][2]
          /\ \A i \in 1..Len(ranked) : \A j \in 1..Len(table) :
                table[j][1] \notin Keys(ranked)
                => IF most THEN table[j][2] <= ranked[i][2]
                   ELSE table[j][2] >= ranked[i][2]
          /\ table = <<>> => ranked = <<>>

\* C8 witness: the most-frequent ranking asked for more items than the table
\* has, returning the whole table, the higher count first.
C8_Witness ==
    /\ op = "get_most_frequent_numbers"
    /\ ~raised
    /\ argCount = 3
    /\ Len(ranked) = 2
    /\ ranked[1][2] > ranked[2][2]

\* the rotation the specification gives
Rotation == <<"hot", "balanced", "cold", "random", "hot">>

\* C9: for n >= 0 generate_optimal_entries returns exactly n entries, the
\* i-th (from 0) labelled with element i mod 5 of [hot, balanced, cold,
\* random, hot] and generated with the strategy of its label.
C9_BatchRotation ==
    (op = "generate_optimal_entries" /\ ~raised /\ argCount >= 0)
    => /\ Len(entries) = argCount
       /\ \A i \in 1..Len(entries) :
             /\ entries[i].entry_number = i
             /\ entries[i].strategy = Rotation[((i - 1) % 5) + 1]
             /\ entries[i].numbers
                  \in generate_frequency_based_entry(Store, argType, entries[i].strategy)

\* C9 witness: a batch of six entries on a non-empty table, the sixth
\* labelled hot again.
C9_Witness ==
    /\ op = "generate_optimal_entries"
    /\ ~raised
    /\ TableOfCall # <<>>
    /\ Len(entries) = 6
    /\ entries[6].strategy = "hot"

\* C10: entry generation for an unrecognized lottery identifier uses the
\* profile of lotto649: 6 numbers per entry, each within 1..49.
C10_UnknownTypeIsLotto649 ==
    (Generated /\ argType \notin KnownTypes)
    => /\ Len(numbers) = 6
       /\ \A i \in 1..Len(numbers) : numbers[i] \in 1..49

--------------------------------------------------------------------------
(* The hot strategy with random.choice unrestricted *)

\* generate_frequency_based_entry(lottery_type, "hot"), random.choice free to
\* return any element of its pool
generate_hot_any_pick(store, lottery_type) ==
    IF calculate_frequency(store, lottery_type) = <<>>
    THEN { SortedInts(s) : s \in RandomSelections(lottery_type) }
    ELSE { SortedInts(s) :
             s \in HotSelectionsAnyPick(
                     get_most_frequent_numbers(store, lottery_type,
                                               numbers_needed(lottery_type) * 2),
                     lottery_type) }

GenerateHotAnyPick ==
    \E t \in LotteryTypes :
        /\ Call("generate_frequency_based_entry", t, "hot", 0, TRUE)
        /\ IF TableExists(Store, t)
           THEN numbers' \in generate_hot_any_pick(Store, t)
           ELSE numbers' = <<>>
        /\ UNCHANGED <<frequency, ranked, entries>>

NextAnyPick ==
    \/ SetupDatabase
    \/ store_lotto649_results
    \/ store_lottomax_results
    \/ GenerateHotAnyPick
    \/ Return

SpecAnyPick == Init /\ [][NextAnyPick]_vars

\* the first numbers_needed - 1 numbers of the whole most-frequent ranking
HotChosen(table, lottery_type) ==
    LET ranking == Nums(SortedByCountReverse(table))
    IN SubSeq(ranking, 1, Min(numbers_needed(lottery_type) - 1, Len(ranking)))

\* the numbers of [min, max] that are not among the chosen ones
Complement(chosen, lottery_type) ==
    { n \in get_number_ranges(lottery_type)[1]..get_number_ranges(lottery_type)[2] :
        ~InList(n, chosen) }

\* C11: on a non-empty table the hot entry is the first numbers_needed - 1
\* numbers of the most-frequent ranking plus exactly one number of their
\* complement within [min, max], and every number of that complement is a
\* possible final pick, whatever its frequency.
C11_HotEntry ==
    /\ op = "idle"
       => \A t \in LotteryTypes :
             (TableExists(Store, t) /\ calculate_frequency(Store, t) # <<>>)
             => LET chosen == HotChosen(calculate_frequency(Store, t), t)
                IN generate_hot_any_pick(Store, t)
                     = { SortedInts(Append(chosen, c)) : c \in Complement(chosen, t) }
    /\ (Generated /\ argStrategy = "hot" /\ TableOfCall # <<>>)
       => LET chosen == HotChosen(TableOfCall, argType)
          IN /\ Len(numbers) = Len(chosen) + 1
             /\ \E c \in Complement(chosen, argType) :
                   numbers = SortedInts(Append(chosen, c))

\* C11 witness: a hot entry whose final pick is itself a drawn number: all
\* its numbers are keys of the table, none twice.
C11_Witness ==
    /\ Generated
    /\ argStrategy = "hot"
    /\ TableOfCall # <<>>
    /\ Len(numbers) = numbers_needed(argType)
    /\ NoDuplicates(numbers)
    /\ \A i \in 1..Len(numbers) : numbers[i] \in Keys(TableOfCall)

\* the first numbers_needed numbers of the whole least-frequent ranking
ColdChosen(table, lottery_type) ==
    LET ranking == Nums(SortedByCount(table))
    IN SubSeq(ranking, 1, Min(numbers_needed(lottery_type), Len(ranking)))

\* the cold strategy returns one and the same entry, the ascending sort of the
\* first numbers_needed numbers of the least-frequent ranking
ColdIsDetermined ==
    /\ op = "idle"
       => \A t \in LotteryTypes :
             (TableExists(Store, t) /\ calculate_frequency(Store, t) # <<>>)
             => generate_frequency_based_entry(Store, t, "cold")
                  = { SortedInts(ColdChosen(calculate_frequency(Store, t), t)) }
    /\ (Generated /\ argStrategy = "cold" /\ TableOfCall # <<>>)
       => numbers = SortedInts(ColdChosen(TableOfCall, argType))

\* C12: the cold strategy has no random component: on a non-empty table it
\* always returns the ascending sort of the first numbers_needed numbers of
\* the least-frequent ranking, so no number of [min, max] left out of the
\* entry has a strictly lower count (occurrences in the draw history) than a
\* number in it.
C12_ColdTakesTheLeastFrequent ==
    /\ ColdIsDetermined
    /\ (Generated /\ argStrategy = "cold" /\ TableOfCall # <<>>)
       => LET D == get_all_drawn_numbers(Store, argType)
              range == get_number_ranges(argType)
          IN \A n \in range[1]..range[2] : \A i \in 1..Len(numbers) :
                InList(n, numbers) \/ Occurrences(n, D) >= Occurrences(numbers[i], D)

\* The balanced selections of a table, described from the rankings: the first
\* half most-frequent numbers, then the first half least-frequent numbers,
\* then numbers_needed - 2 * half drawn numbers, each one a number of
\* [min, max] that is not among the numbers before it.
BalancedAsDescribed(store, lottery_type, half) ==
    LET table == calculate_frequency(store, lottery_type)
        most == Nums(SortedByCountReverse(table))
        least == Nums(SortedByCount(table))
        needed == numbers_needed(lottery_type)
        range == get_number_ranges(lottery_type)
    IN /\ Len(table) >= half
       /\ \A s \in BalancedSelections(store, lottery_type) :
             /\ Len(s) >= 2 * half
             /\ SubSeq(s, 1, 2 * half) = SubSeq(most, 1, half) \o SubSeq(least, 1, half)
             /\ Len(s) - 2 * half = needed - 2 * half
             /\ \A j \in (2 * half + 1)..Len(s) :
                   /\ s[j] \in range[1]..range[2]
                   /\ ~InList(s[j], SubSeq(s, 1, j - 1))

\* C13 as stated: in the balanced strategy on a non-empty table, the selection
\* starts as the top floor(numbers_needed/2) most-frequent numbers followed by
\* the top floor(numbers_needed/2) least-frequent numbers, and the fill draws
\* exactly numbers_needed - 2*floor(numbers_needed/2) numbers, each from the
\* numbers of [min, max] not already selected.
C13_BalancedHalves ==
    op = "idle"
    => \A t \in LotteryTypes :
          (TableExists(Store, t) /\ calculate_frequency(Store, t) # <<>>)
          => BalancedAsDescribed(Store, t, numbers_needed(t) \div 2)

\* C13 amended: with k the number of keys of the non-empty table and
\* h = min(floor(numbers_needed/2), k), the balanced selection starts as the
\* top h most-frequent numbers followed by the top h least-frequent numbers,
\* and the fill draws exactly numbers_needed - 2*h numbers, each from the
\* numbers of [min, max] not already selected; the returned entry is the
\* ascending sort of such a selection.
C13_BalancedHalvesOfTheTable ==
    /\ op = "idle"
       => \A t \in LotteryTypes :
             (TableExists(Store, t) /\ calculate_frequency(Store, t) # <<>>)
             => BalancedAsDescribed(Store, t,
                    Min(numbers_needed(t) \div 2, Len(calculate_frequency(Store, t))))
    /\ (Generated /\ argStrategy = "balanced" /\ TableOfCall # <<>>)
       => /\ BalancedAsDescribed(Store, argType,
                 Min(numbers_needed(argType) \div 2, Len(TableOfCall)))
          /\ \E s \in BalancedSelections(Store, argType) : numbers = SortedInts(s)

\* a balanced entry from a table with fewer keys than half an entry
C13_Witness ==
    /\ Generated /\ argStrategy = "balanced"
    /\ TableOfCall # <<>>
    /\ Len(TableOfCall) < numbers_needed(argType) \div 2
    /\ Len(numbers) = numbers_needed(argType)

\* the numbers of the draw history, draw after draw
RECURSIVE Flatten(_)
Flatten(D) == IF D = <<>> THEN <<>> ELSE Head(D) \o Flatten(Tail(D))

\* the position of the first occurrence of n in the history (0 when absent)
FirstOccurrence(n, history) ==
    IF InList(n, history)
    THEN CHOOSE i \in 1..Len(history) :
            history[i] = n /\ \A j \in 1..(i - 1) : history[j] # n
    ELSE 0

\* pairs of equal count stand in the order of their first occurrence
TiesInHistoryOrder(pairs, history) ==
    \A i, j \in 1..Len(pairs) :
        (i < j /\ pairs[i][2] = pairs[j][2])
        => /\ FirstOccurrence(pairs[i][1], history) > 0
           /\ FirstOccurrence(pairs[i][1], history) < FirstOccurrence(pairs[j][1], history)

\* C14: in the most-frequent and in the least-frequent ranking, two numbers
\* with equal counts appear in the iteration order of the frequency table,
\* which is the order of their first occurrence in the draw history; this
\* holds for the descending ranking too.
C14_TiesKeepTableOrder ==
    /\ op = "idle"
       => \A t \in LotteryTypes :
             TableExists(Store, t)
             => LET history == Flatten(get_all_drawn_numbers(Store, t))
                    table == calculate_frequency(Store, t)
                IN /\ \A i, j \in 1..Len(table) :
                         i < j => FirstOccurrence(table[i][1], history)
                                    < FirstOccurrence(table[j][1], history)
                   /\ TiesInHistoryOrder(SortedByCountReverse(table), history)
                   /\ TiesInHistoryOrder(SortedByCount(table), history)
    /\ Ranked
       => TiesInHistoryOrder(ranked, Flatten(get_all_drawn_numbers(Store, argType)))

\* a most-frequent ranking of three numbers, the first with the higher count,
\* the other two tied
C14_Witness ==
    /\ op = "get_most_frequent_numbers"
    /\ ~raised
    /\ Len(ranked) = 3
    /\ ranked[1][2] > ranked[2][2]
    /\ ranked[2][2] = ranked[3][2]

\* every number of the list occurs in the draws of D
AllDrawn(xs, D) == \A i \in 1..Len(xs) : Occurrences(xs[i], D) >= 1

\* how many positions of the list hold a number that is in no draw of D
NeverDrawn(xs, D) == Cardinality({i \in 1..Len(xs) : Occurrences(xs[i], D) = 0})

\* C16: every value of a table built by calculate_frequency is at least 1 and
\* a number that is in no draw is not a key; so the ranked lists and the
\* ranked picks of the hot, cold and balanced strategies hold only numbers
\* drawn at least once, and a never-drawn number enters an entry only through
\* a random pick.
C16_OnlyDrawnNumbersAreRanked ==
    /\ op = "idle"
       => \A t \in LotteryTypes :
             TableExists(Store, t)
             => LET D == get_all_drawn_numbers(Store, t)
                    table == calculate_frequency(Store, t)
                    needed == numbers_needed(t)
                    range == get_number_ranges(t)
                    most == get_most_frequent_numbers(Store, t, needed * 2)
                    least == get_least_frequent_numbers(Store, t, needed * 2)
                IN /\ \A i \in 1..Len(table) : table[i][2] >= 1
                   /\ \A n \in range[1]..range[2] :
                         Occurrences(n, D) = 0 => n \notin Keys(table)
                   /\ AllDrawn(Nums(table), D)
                   /\ AllDrawn(Nums(most), D) /\ AllDrawn(Nums(least), D)
                   /\ AllDrawn(hot_selected(most, t), D)
                   /\ \A s \in ColdSelections(Store, t) : AllDrawn(s, D)
                   /\ AllDrawn(balanced_selected(
                                   get_most_frequent_numbers(Store, t, needed),
                                   get_least_frequent_numbers(Store, t, needed), t), D)
    /\ (op = "calculate_frequency" /\ ~raised)
       => \A i \in 1..Len(frequency) : frequency[i][2] >= 1
    /\ Ranked
       => AllDrawn(Nums(ranked), get_all_drawn_numbers(Store, argType))
    /\ (Generated /\ TableOfCall # <<>>)
       => LET D == get_all_drawn_numbers(Store, argType)
              half == Min(numbers_needed(argType) \div 2, Len(TableOfCall))
          IN /\ argStrategy = "cold" => AllDrawn(numbers, D)
             /\ argStrategy = "hot" => NeverDrawn(numbers, D) <= 1
             /\ argStrategy = "balanced"
                => NeverDrawn(numbers, D) <= numbers_needed(argType) - 2 * half

\* a cold entry from a table of which 1, a number of the range, is not a key
C16_Witness ==
    /\ Generated /\ argStrategy = "cold"
    /\ TableOfCall # <<>>
    /\ 1 \notin Keys(TableOfCall)
    /\ numbers # <<>>
    /\ AllDrawn(numbers, get_all_drawn_numbers(Store, argType))

--------------------------------------------------------------------------
(* generate_frequency_based_entry run line by line, the scraper writing    *)
(* to the same sqlite file at any moment.  frame holds the locals of the   *)
(* running invocation; frame.reads lists, for the top-level call, the draw *)
(* history each SELECT of get_all_drawn_numbers returned.                  *)

\* a store function of the scraper running in another process
StoreAtAnyTime(lottery_type, results) ==
    /\ TotalRows + Len(results) <= MaxRows
    /\ rows' = [rows EXCEPT ![lottery_type] =
                   InsertAll(@, lottery_type \in tables, results)]
    /\ UNCHANGED <<tables, op, argType, argStrategy, argCount, raised,
                   frequency, ranked, numbers, entries, frame>>

store_results_at_any_time ==
    \E t \in {"lotto649", "lottomax"}, d \in SampleDraws : StoreAtAnyTime(t, <<d>>)

\* the call is made: lines 69-70 touch no state
BeginEntry ==
    \E t \in LotteryTypes, s \in StrategyNames :
        /\ op = "idle"
        /\ op' = "generate_frequency_based_entry"
        /\ argType' = t
        /\ argStrategy' = s
        /\ argCount' = 0
        /\ raised' = FALSE
        /\ frame' = [NoFrame EXCEPT !.pc = "calculate_frequency", !.strategy = s]
        /\ UNCHANGED <<tables, rows, frequency, ranked, numbers, entries>>

\* frequency = self.calculate_frequency(lottery_type)
ReadFrequency ==
    /\ frame.pc = "calculate_frequency"
    /\ IF TableExists(Store, argType)
       THEN /\ frame' = [frame EXCEPT
                           !.pc = "dispatch",
                           !.frequency = calculate_frequency(Store, argType),
                           !.reads = Append(@, get_all_drawn_numbers(Store, argType))]
            /\ raised' = raised
       ELSE /\ frame' = [frame EXCEPT !.pc = "done"]
            /\ raised' = TRUE
    /\ UNCHANGED <<tables, rows, op, argType, argStrategy, argCount,
                   frequency, ranked, numbers, entries>>

\* the strategy the else branch calls the function again with
fallback_strategy == "balanced"

\* if not frequency: ... / if strategy == ... / else: the recursive call
Dispatch ==
    /\ frame.pc = "dispatch"
    /\ IF frame.frequency = <<>>
       THEN /\ \E s \in RandomSelections(argType) : numbers' = SortedInts(s)
            /\ frame' = [frame EXCEPT !.pc = "done"]
       ELSE IF frame.strategy \in {"hot", "cold"}
       THEN /\ frame' = [frame EXCEPT !.pc = frame.strategy]
            /\ numbers' = numbers
       ELSE IF frame.strategy = "balanced"
       THEN /\ frame' = [frame EXCEPT !.pc = "balanced_most"]
            /\ numbers' = numbers
       ELSE IF frame.strategy = "random"
       THEN /\ \E s \in RandomSelections(argType) :
                  frame' = [frame EXCEPT !.pc = "sorted", !.selected = s]
            /\ numbers' = numbers
       ELSE /\ frame' = [NoFrame EXCEPT
                           !.pc = "calculate_frequency",
                           !.strategy = fallback_strategy,
                           !.depth = frame.depth + 1,
                           !.reads = frame.reads]
            /\ numbers' = numbers
    /\ UNCHANGED <<tables, rows, op, argType, argStrategy, argCount, raised,
                   frequency, ranked, entries>>

\* the hot branch: get_most_frequent_numbers reads the store again
HotStep ==
    /\ frame.pc = "hot"
    /\ LET most_frequent == get_most_frequent_numbers(Store, argType,
                                                      numbers_needed(argType) * 2)
       IN \E s \in HotSelectionsOf(most_frequent, argType) :
             frame' = [frame EXCEPT
                         !.pc = "sorted", !.most = most_frequent, !.selected = s,
                         !.reads = Append(@, get_all_drawn_numbers(Store, argType))]
    /\ UNCHANGED <<tables, rows, op, argType, argStrategy, argCount, raised,
                   frequency, ranked, numbers, entries>>

\* the cold branch: get_least_frequent_numbers reads the store again
ColdStep ==
    /\ frame.pc = "cold"
    /\ LET least_frequent == get_least_frequent_numbers(Store, argType,
                                                        numbers_needed(argType) * 2)
       IN \E s \in ColdSelectionsOf(least_frequent, argType) :
             frame' = [frame EXCEPT
                         !.pc = "sorted", !.least = least_frequent, !.selected = s,
                         !.reads = Append(@, get_all_drawn_numbers(Store, argType))]
    /\ UNCHANGED <<tables, rows, op, argType, argStrategy, argCount, raised,
                   frequency, ranked, numbers, entries>>

\* hot_numbers = self.get_most_frequent_numbers(lottery_type, numbers_needed)
BalancedMost ==
    /\ frame.pc = "balanced_most"
    /\ frame' = [frame EXCEPT
                   !.pc = "balanced_least",
                   !.most = get_most_frequent_numbers(Store, argType,
                                                      numbers_needed(argType)),
                   !.reads = Append(@, get_all_drawn_numbers(Store, argType))]
    /\ UNCHANGED <<tables, rows, op, argType, argStrategy, argCount, raised,
                   frequency, ranked, numbers, entries>>

\* cold_numbers = ...; selected = hot_picks + cold_picks
BalancedLeast ==
    /\ frame.pc = "balanced_least"
    /\ LET cold_numbers == get_least_frequent_numbers(Store, argType,
                                                      numbers_needed(argType))
       IN frame' = [frame EXCEPT
                      !.pc = "fill",
                      !.least = cold_numbers,
                      !.selected = balanced_selected(frame.most, cold_numbers, argType),
                      !.reads = Append(@, get_all_drawn_numbers(Store, argType))]
    /\ UNCHANGED <<tables, rows, op, argType, argStrategy, argCount, raised,
                   frequency, ranked, numbers, entries>>

\* one test of the while condition and, when it holds, one run of its body
FillStep ==
    /\ frame.pc = "fill"
    /\ IF Len(frame.selected) < numbers_needed(argType)
       THEN \E c \in RandomChoice(remaining_pool(frame.selected, argType)) :
               frame' = [frame EXCEPT !.selected = Append(@, c), !.fills = @ + 1]
       ELSE frame' = [frame EXCEPT !.pc = "sorted"]
    /\ UNCHANGED <<tables, rows, op, argType, argStrategy, argCount, raised,
                   frequency, ranked, numbers, entries>>

\* return sorted(selected)
SortStep ==
    /\ frame.pc = "sorted"
    /\ numbers' = SortedInts(frame.selected)
    /\ frame' = [frame EXCEPT !.pc = "done"]
    /\ UNCHANGED <<tables, rows, op, argType, argStrategy, argCount, raised,
                   frequency, ranked, entries>>

\* the caller takes the result of the finished invocation
ReturnEntry ==
    /\ frame.pc = "done"
    /\ op' = "idle"
    /\ argType' = ""
    /\ argStrategy' = ""
    /\ argCount' = 0
    /\ raised' = FALSE
    /\ NoResult
    /\ frame' = NoFrame
    /\ UNCHANGED <<tables, rows>>

\* the steps of the analyzer's process
AnalyzerStep ==
    \/ ReadFrequency
    \/ Dispatch
    \/ HotStep
    \/ ColdStep
    \/ BalancedMost
    \/ BalancedLeast
    \/ FillStep
    \/ SortStep

NextSteps ==
    \/ SetupDatabase
    \/ store_results_at_any_time
    \/ BeginEntry
    \/ AnalyzerStep
    \/ ReturnEntry

SpecSteps == Init /\ [][NextSteps]_vars

\* ENABLED <<AnalyzerStep>>_vars written out line by line: the running
\* invocation has a next step unless random.sample is asked for more numbers
\* than the range holds (ValueError) or random.choice is given an empty pool
\* (IndexError)
AnalyzerStepEnabled ==
    /\ frame.pc \notin {"none", "done"}
    /\ (frame.pc = "dispatch" /\ (frame.frequency = <<>> \/ frame.strategy = "random"))
       => RandomSelections(argType) # {}
    /\ frame.pc = "hot"
       => remaining_pool(
              hot_selected(get_most_frequent_numbers(Store, argType,
                                                     numbers_needed(argType) * 2),
                           argType),
              argType) # <<>>
    /\ frame.pc = "fill"
       => \/ Len(frame.selected) >= numbers_needed(argType)
          \/ remaining_pool(frame.selected, argType) # <<>>

\* The interpreter keeps running the invocation it is in: weak fairness of
\* AnalyzerStep, i.e. WF_vars(AnalyzerStep) with its enabling condition
\* written out.
FairSteps ==
    SpecSteps /\ ([]<>(~AnalyzerStepEnabled) \/ []<><<AnalyzerStep>>_vars)

--------------------------------------------------------------------------
(* Claims about the invocation run line by line *)

\* Without a write between its reads, the invocation run line by line
\* returns what the call taken as one step returns.
StepsAgreeWithCall ==
    (frame.pc = "done" /\ ~raised
       /\ \A i \in 1..Len(frame.reads) :
             frame.reads[i] = get_all_drawn_numbers(Store, argType))
    => numbers \in generate_frequency_based_entry(Store, argType, argStrategy)

\* every read of the invocation returned the same draw history
SameHistoryAtEveryStep ==
    \A i, j \in 1..Len(frame.reads) : frame.reads[i] = frame.reads[j]

\* C15: during one invocation of generate_frequency_based_entry the draw
\* history is read from the store exactly once, and the emptiness check, the
\* most-frequent ranking and the least-frequent ranking all work on that one
\* snapshot, whatever the scraper writes in between.
C15_HistoryReadOnce ==
    /\ Len(frame.reads) <= 1
    /\ (frame.pc = "done" /\ ~raised) => Len(frame.reads) = 1
    /\ SameHistoryAtEveryStep

\* an invocation is running and has not returned yet
InCall == frame.pc \notin {"none", "done"}

\* What bounds the loop and the recursion: the fill loop has run at most
\* numbers_needed times, each run added one number to the two halves, the
\* pool it picks from is not empty while a number is missing, and the
\* function has re-entered itself at most once, only for an unknown strategy
\* and then with "balanced".
LoopAndRecursionBounded ==
    /\ frame.fills <= numbers_needed(argType)
    /\ frame.pc = "fill"
       => /\ Len(frame.selected)
               = Len(balanced_selected(frame.most, frame.least, argType)) + frame.fills
          /\ Len(frame.selected) < numbers_needed(argType)
             => remaining_pool(frame.selected, argType) # <<>>
    /\ frame.depth <= 1
    /\ frame.depth = 1
       => argStrategy \notin KnownStrategies /\ frame.strategy = "balanced"
    /\ (frame.pc = "done" /\ ~raised /\ frame.frequency # <<>>)
       => frame.depth = (IF argStrategy \in KnownStrategies THEN 0 ELSE 1)

\* C17: generate_frequency_based_entry terminates for every table and every
\* strategy string: the balanced fill loop adds one number per iteration from
\* a never-empty pool and stops after at most numbers_needed iterations, the
\* fallback for an unknown strategy recurses exactly once, and every
\* invocation that has begun reaches its return (or raises).
C17_Terminates ==
    /\ []LoopAndRecursionBounded
    /\ InCall ~> (frame.pc = "done")

\* an invocation with an unknown strategy that has returned an entry after
\* one recursion and at least one run of the fill loop
C17_Witness ==
    /\ frame.pc = "done"
    /\ ~raised
    /\ argStrategy \notin KnownStrategies
    /\ frame.depth = 1
    /\ frame.fills >= 1
    /\ Len(numbers) = numbers_needed(argType)

====
